---- MODULE Spec2Model ----
(***************************************************************************)
(* The comment API of kern-comments: the collection view (list, create)   *)
(* and the item view (get, update, soft-delete) of comments/views.py,     *)
(* over a store of Comment records, gated by a pluggable permission       *)
(* policy.                                                                 *)
(*                                                                         *)
(* Texts are sequences of tokens.  "a" is plain text, " " is whitespace,  *)
(* "<" is a piece of markup (a tag), "!" is an HTML comment and "u" is a  *)
(* bare URL.  bleach.clean escapes markup and drops HTML comments;        *)
(* bleach.linkify wraps bare URLs in an anchor.                            *)
(***************************************************************************)
EXTENDS Integers, Sequences, FiniteSets, TLC

VARIABLES
    store,      \* the Comment table: store[id] is the record with pk = id
    last,       \* the request handled last, with its response
    prev,       \* the Comment table as it was when that request arrived
    inflight,   \* the two workers of the concurrent update / delete
    registry,   \* the policy objects the permission registry holds
    perms       \* the perms attributes of the two view classes

vars == <<store, last, prev, inflight, registry, perms>>

\* ---------------------------------------------------------------- bounds

MaxComments == 2
MaxTextLen == 1

\* ------------------------------------------------------------- constants

NoId == 0

\* the targets that exist, and a pair that resolves to nothing
Existing == {<<"post", "1">>, <<"post", "2">>}
Paths == Existing \cup {<<"nope", "1">>}
Users == {"ann"}
Chars == {"a", "<", "!"}

CommentIds == 1..MaxComments
Texts == UNION {[1..n -> Chars] : n \in 0..MaxTextLen}

\* ------------------------------------------------------------- sanitizer

RECURSIVE Clean(_)
Clean(text) ==
    IF text = <<>> THEN <<>>
    ELSE LET h == Head(text)
             r == Clean(Tail(text))
         IN  IF h = "!" THEN r
             ELSE IF h = "<" THEN <<"&lt;">> \o r
             ELSE <<h>> \o r

RECURSIVE Linkify(_)
Linkify(text) ==
    IF text = <<>> THEN <<>>
    ELSE LET h == Head(text)
             r == Linkify(Tail(text))
         IN  IF h = "u" THEN <<"<a>u</a>">> \o r ELSE <<h>> \o r

SanitizeAndLinkify(text) == Linkify(Clean(text))

\* ---------------------------------------------------------------- bodies

NoBody == [kind |-> "none", has_comment |-> FALSE, comment |-> <<>>, parentID |-> NoId]
Malformed == [kind |-> "malformed", has_comment |-> FALSE, comment |-> <<>>, parentID |-> NoId]

DictBodies ==
    {b \in [kind : {"dict"}, has_comment : BOOLEAN, comment : Texts,
            parentID : {NoId} \cup CommentIds] :
        ~b.has_comment => b.comment = <<>>}

CreateBodies == {Malformed} \cup DictBodies
UpdateBodies == {Malformed} \cup {b \in DictBodies : b.parentID = NoId}

\* Comment.validate_json: the comment field is required and non-empty.
ValidateJson(body) == body.has_comment /\ body.comment # <<>>

\* body.get("comment", "")
BodyGetComment(body) == IF body.has_comment THEN body.comment ELSE <<>>

\* ---------------------------------------------------------------- policy

\* The answers the installed policy gives to one request.  Each endpoint is
\* tried with both answers of its own predicate; delete is tried with every
\* pair of answers of can_get_comment and can_delete_comment.
Answers(varied) ==
    {a \in [can_list_comments : BOOLEAN, can_create_comment : BOOLEAN,
            can_get_comment : BOOLEAN, can_update_comment : BOOLEAN,
            can_delete_comment : BOOLEAN] :
        /\ "list" \notin varied => a.can_list_comments
        /\ "create" \notin varied => a.can_create_comment
        /\ "get" \notin varied => a.can_get_comment
        /\ "update" \notin varied => a.can_update_comment
        /\ "delete" \notin varied => a.can_delete_comment}

CanListComments(req) == req.allow.can_list_comments
CanCreateComment(req) == req.allow.can_create_comment
CanGetComment(req) == req.allow.can_get_comment
CanUpdateComment(req) == req.allow.can_update_comment
DeletePermission(req) == req.allow.can_get_comment

\* -------------------------------------------------------------- requests

Request(op, path, comment_id, user, allow, body) ==
    [op |-> op, content_type |-> path[1], object_pk |-> path[2],
     comment_id |-> comment_id, user |-> user, allow |-> allow, body |-> body]

NoRequest == Request("none", <<"post", "1">>, NoId, "ann", CHOOSE a \in Answers({}) : TRUE, NoBody)

ListRequests ==
    {Request("list", p, NoId, "ann", a, NoBody) : p \in Paths, a \in Answers({"list"})}
CreateRequests ==
    {Request("create", pu[1], NoId, pu[2], a, b) :
        pu \in Paths \X Users, a \in Answers({"create"}), b \in CreateBodies}
GetRequests ==
    {Request("get", pc[1], pc[2], "ann", a, NoBody) :
        pc \in Paths \X CommentIds, a \in Answers({"get"})}
UpdateRequests ==
    {Request("update", pc[1], pc[2], "ann", a, b) :
        pc \in Paths \X CommentIds, a \in Answers({"update"}), b \in UpdateBodies}
DeleteRequests ==
    {Request("delete", pc[1], pc[2], "ann", a, NoBody) :
        pc \in Paths \X CommentIds, a \in Answers({"get", "delete"})}

\* ----------------------------------------------------------------- store

\* get_content_type_and_target_or_none
TargetFound(content_type, object_pk) == <<content_type, object_pk>> \in Existing

Ids(st) == 1..Len(st)

\* the ids of a set, in ascending order (the order of creation)
RECURSIVE Ascending(_)
Ascending(ids) ==
    IF ids = {} THEN <<>>
    ELSE LET m == CHOOSE i \in ids : \A j \in ids : i <= j
         IN  <<m>> \o Ascending(ids \ {m})

\* Comment.objects.for_model(target)
ForModel(st, content_type, object_pk) ==
    {i \in Ids(st) : st[i].content_type = content_type /\ st[i].object_pk = object_pk}

\* .active()
Active(st, ids) == {i \in ids : st[i].is_active}

\* ExtendedEncoder: a comment is rendered with its public fields
Serialize(id, c) ==
    [id |-> id, content_type |-> c.content_type, object_pk |-> c.object_pk,
     user |-> c.user, parent |-> c.parent, comment |-> c.comment,
     is_active |-> c.is_active]

SerializeAll(st, ids) == [k \in 1..Len(ids) |-> Serialize(ids[k], st[ids[k]])]

\* Comment.objects.create(...)
ObjectsCreate(st, content_type, object_pk, user, parent, comment) ==
    Append(st, [content_type |-> content_type, object_pk |-> object_pk, user |-> user,
                parent |-> parent, comment |-> comment, is_active |-> TRUE])

\* instance.save(): every field of the instance is written to its row
Save(st, id, instance) == [st EXCEPT ![id] = instance]

\* ------------------------------------------------------------- responses

NoTrace == [resolved |-> FALSE, parsed |-> FALSE, read |-> FALSE, validated |-> <<>>]

Response(st, status, msg, result, trace) ==
    [store |-> st, status |-> status, msg |-> msg, result |-> result, trace |-> trace]

\* _build_error_response
BuildErrorResponse(st, msg, status, trace) == Response(st, status, msg, <<>>, trace)

\* an exception leaving the handler: the framework answers 500
Raised(st, trace) == Response(st, 500, "Server Error", <<>>, trace)

\* Http404 raised by get_object_or_404: the framework's own 404
Http404(st, trace) == Response(st, 404, "Not Found", <<>>, trace)

Trace(resolved, parsed, read, validated) ==
    [resolved |-> resolved, parsed |-> parsed, read |-> read, validated |-> validated]

\* ------------------------------------------------------------ CommentView

\* the list queryset without the .active() filter
ListQuerysetAll(st, content_type, object_pk) ==
    Ascending(ForModel(st, content_type, object_pk))

\* CommentView.get_queryset
ListQueryset(st, content_type, object_pk) ==
    Ascending(Active(st, ForModel(st, content_type, object_pk)))

\* the parent looked up among all comments, whatever their target
ParentLookupAnyTarget(st, content_type, object_pk, parent_id) ==
    IF parent_id \in Ids(st) THEN parent_id ELSE NoId

\* Comment.objects.for_model(target).filter(id=parent_id).first()
ParentLookup(st, content_type, object_pk, parent_id) ==
    IF parent_id \in ForModel(st, content_type, object_pk) THEN parent_id ELSE NoId

\* CommentView.get
ListComments(st, req) ==
    IF ~CanListComments(req)
    THEN BuildErrorResponse(st, "Permission denied", 403, NoTrace)
    ELSE IF ~TargetFound(req.content_type, req.object_pk)
    THEN BuildErrorResponse(st, "Bad content type or object id", 404,
                            Trace(TRUE, FALSE, FALSE, <<>>))
    ELSE Response(st, 200, "",
                  SerializeAll(st, ListQueryset(st, req.content_type, req.object_pk)),
                  Trace(TRUE, FALSE, TRUE, <<>>))

\* CommentView.post creating the comment before it looks at the parent
PostBodyCreatesFirst(st, req) ==
    IF req.body.kind # "dict"
    THEN Raised(st, Trace(TRUE, TRUE, FALSE, <<>>))
    ELSE LET body == [req.body EXCEPT !.has_comment = TRUE,
                                      !.comment = SanitizeAndLinkify(BodyGetComment(req.body))]
             seen == <<[has_comment |-> body.has_comment, comment |-> body.comment]>>
             parent == ParentLookup(st, req.content_type, req.object_pk, body.parentID)
             new == ObjectsCreate(st, req.content_type, req.object_pk,
                                  req.user, parent, body.comment)
         IN  IF ~ValidateJson(body)
             THEN BuildErrorResponse(st, "invalid", 400, Trace(TRUE, TRUE, FALSE, seen))
             ELSE IF body.parentID # NoId /\ parent = NoId
             THEN BuildErrorResponse(new, "Bad parent", 404, Trace(TRUE, TRUE, TRUE, seen))
             ELSE Response(new, 200, "", <<Serialize(Len(new), new[Len(new)])>>,
                           Trace(TRUE, TRUE, body.parentID # NoId, seen))

\* CommentView.post taking the author of a reply from its parent
PostBodyAuthorOfParent(st, req) ==
    IF req.body.kind # "dict"
    THEN Raised(st, Trace(TRUE, TRUE, FALSE, <<>>))
    ELSE LET body == [req.body EXCEPT !.has_comment = TRUE,
                                      !.comment = SanitizeAndLinkify(BodyGetComment(req.body))]
             seen == <<[has_comment |-> body.has_comment, comment |-> body.comment]>>
             parent == ParentLookup(st, req.content_type, req.object_pk, body.parentID)
         IN  IF ~ValidateJson(body)
             THEN BuildErrorResponse(st, "invalid", 400, Trace(TRUE, TRUE, FALSE, seen))
             ELSE IF body.parentID # NoId /\ parent = NoId
             THEN BuildErrorResponse(st, "Bad parent", 404, Trace(TRUE, TRUE, TRUE, seen))
             ELSE LET new == ObjectsCreate(st, req.content_type, req.object_pk,
                                           IF parent # NoId THEN st[parent].user
                                           ELSE req.user,
                                           parent, body.comment)
                  IN  Response(new, 200, "", <<Serialize(Len(new), new[Len(new)])>>,
                               Trace(TRUE, TRUE, body.parentID # NoId, seen))

\* CommentView.post, from json.loads on
PostBody(st, req) ==
    IF req.body.kind # "dict"
    THEN Raised(st, Trace(TRUE, TRUE, FALSE, <<>>))
    ELSE LET body == [req.body EXCEPT !.has_comment = TRUE,
                                      !.comment = SanitizeAndLinkify(BodyGetComment(req.body))]
             seen == <<[has_comment |-> body.has_comment, comment |-> body.comment]>>
             parent == ParentLookup(st, req.content_type, req.object_pk, body.parentID)
         IN  IF ~ValidateJson(body)
             THEN BuildErrorResponse(st, "invalid", 400, Trace(TRUE, TRUE, FALSE, seen))
             ELSE IF body.parentID # NoId /\ parent = NoId
             THEN BuildErrorResponse(st, "Bad parent", 404, Trace(TRUE, TRUE, TRUE, seen))
             ELSE LET new == ObjectsCreate(st, req.content_type, req.object_pk,
                                           req.user, parent, body.comment)
                  IN  Response(new, 200, "", <<Serialize(Len(new), new[Len(new)])>>,
                               Trace(TRUE, TRUE, body.parentID # NoId, seen))

\* CommentView.post resolving the target before it asks the policy
CreateCommentTargetFirst(st, req) ==
    IF ~TargetFound(req.content_type, req.object_pk)
    THEN BuildErrorResponse(st, "Bad content type or object id", 404,
                            Trace(TRUE, FALSE, FALSE, <<>>))
    ELSE IF ~CanCreateComment(req)
    THEN BuildErrorResponse(st, "Permission denied", 403, NoTrace)
    ELSE PostBody(st, req)

\* CommentView.post
CreateComment(st, req) ==
    IF ~CanCreateComment(req)
    THEN BuildErrorResponse(st, "Permission denied", 403, NoTrace)
    ELSE IF ~TargetFound(req.content_type, req.object_pk)
    THEN BuildErrorResponse(st, "Bad content type or object id", 404,
                            Trace(TRUE, FALSE, FALSE, <<>>))
    ELSE PostBody(st, req)

\* ------------------------------------------------------ CommentDetailView

\* a detail queryset without the .active() filter
DetailQuerysetAll(st) == Ids(st)

\* CommentDetailView.get_queryset
DetailQueryset(st) == Active(st, Ids(st))

\* get_object_or_404(queryset, pk=comment_id); NoId stands for Http404
GetObjectOr404(queryset, comment_id) ==
    IF comment_id \in queryset THEN comment_id ELSE NoId

\* CommentDetailView.get
GetComment(st, req) ==
    IF ~CanGetComment(req)
    THEN BuildErrorResponse(st, "Permission denied", 403, NoTrace)
    ELSE LET id == GetObjectOr404(DetailQueryset(st), req.comment_id)
         IN  IF id = NoId
             THEN Http404(st, Trace(FALSE, FALSE, TRUE, <<>>))
             ELSE Response(st, 200, "", <<Serialize(id, st[id])>>,
                           Trace(FALSE, FALSE, TRUE, <<>>))

\* CommentDetailView.put saving whatever the sanitizer returns, empty or not
PutFetchedAlwaysSaves(st, req, id, comment) ==
    IF req.body.kind # "dict"
    THEN Raised(st, Trace(FALSE, TRUE, TRUE, <<>>))
    ELSE LET seen == <<[has_comment |-> req.body.has_comment, comment |-> req.body.comment]>>
             text == SanitizeAndLinkify(BodyGetComment(req.body))
             saved == [comment EXCEPT !.comment = text]
         IN  IF ~ValidateJson(req.body)
             THEN BuildErrorResponse(st, "invalid", 400, Trace(FALSE, TRUE, TRUE, seen))
             ELSE Response(Save(st, id, saved), 200, "", <<Serialize(id, saved)>>,
                           Trace(FALSE, TRUE, TRUE, seen))

\* CommentDetailView.put assigning the target of the request path as well
PutFetchedRetargets(st, req, id, comment) ==
    IF req.body.kind # "dict"
    THEN Raised(st, Trace(FALSE, TRUE, TRUE, <<>>))
    ELSE LET seen == <<[has_comment |-> req.body.has_comment, comment |-> req.body.comment]>>
             text == SanitizeAndLinkify(BodyGetComment(req.body))
             saved == [comment EXCEPT !.comment = text,
                                      !.content_type = req.content_type,
                                      !.object_pk = req.object_pk]
         IN  IF ~ValidateJson(req.body)
             THEN BuildErrorResponse(st, "invalid", 400, Trace(FALSE, TRUE, TRUE, seen))
             ELSE IF text # <<>>
             THEN Response(Save(st, id, saved), 200, "", <<Serialize(id, saved)>>,
                           Trace(FALSE, TRUE, TRUE, seen))
             ELSE Response(st, 304, "", <<>>, Trace(FALSE, TRUE, TRUE, seen))

\* CommentDetailView.put, after the comment was fetched
PutFetched(st, req, id, comment) ==
    IF req.body.kind # "dict"
    THEN Raised(st, Trace(FALSE, TRUE, TRUE, <<>>))
    ELSE LET seen == <<[has_comment |-> req.body.has_comment, comment |-> req.body.comment]>>
             text == SanitizeAndLinkify(BodyGetComment(req.body))
             saved == [comment EXCEPT !.comment = text]
         IN  IF ~ValidateJson(req.body)
             THEN BuildErrorResponse(st, "invalid", 400, Trace(FALSE, TRUE, TRUE, seen))
             ELSE IF text # <<>>
             THEN Response(Save(st, id, saved), 200, "", <<Serialize(id, saved)>>,
                           Trace(FALSE, TRUE, TRUE, seen))
             ELSE Response(st, 304, "", <<>>, Trace(FALSE, TRUE, TRUE, seen))

\* CommentDetailView.put
UpdateComment(st, req) ==
    IF ~CanUpdateComment(req)
    THEN BuildErrorResponse(st, "Permission denied", 403, NoTrace)
    ELSE LET id == GetObjectOr404(DetailQueryset(st), req.comment_id)
         IN  IF id = NoId
             THEN Http404(st, Trace(FALSE, FALSE, TRUE, <<>>))
             ELSE PutFetched(st, req, id, st[id])

\* CommentDetailView.delete, after the comment was fetched
DeleteFetched(st, req, id, comment) ==
    Response(Save(st, id, [comment EXCEPT !.is_active = FALSE]), 204, "", <<>>,
             Trace(FALSE, FALSE, TRUE, <<>>))

\* CommentDetailView.delete
DeleteComment(st, req) ==
    IF ~DeletePermission(req)
    THEN BuildErrorResponse(st, "Permission denied", 403, NoTrace)
    ELSE LET id == GetObjectOr404(DetailQueryset(st), req.comment_id)
         IN  IF id = NoId
             THEN Http404(st, Trace(FALSE, FALSE, TRUE, <<>>))
             ELSE DeleteFetched(st, req, id, st[id])

\* -------------------------------------------------------------- registry

\* the policy objects: Root() and Detail() of public/permissions.py, which
\* allow everything, and the objects of a policy that refuses everything
PolicyObjects == {"allow_all", "deny_all"}

\* init_permissions: set_permissions(root=Root(), detail=Detail())
Installed == [root |-> "allow_all", detail |-> "allow_all"]

\* views.py is not imported yet: the view classes do not exist
NotLoaded == [loaded |-> FALSE, root |-> "allow_all", detail |-> "allow_all"]

\* the answers of a root and a detail policy object
AnswersOf(root, detail) ==
    [can_list_comments |-> root = "allow_all",
     can_create_comment |-> root = "allow_all",
     can_get_comment |-> detail = "allow_all",
     can_update_comment |-> detail = "allow_all",
     can_delete_comment |-> detail = "allow_all"]

\* ------------------------------------------------- one request at a time

Idle == [pc |-> "idle", req |-> NoRequest, id |-> NoId, fetched |-> <<>>, status |-> NoId]

Init ==
    /\ store = <<>>
    /\ prev = <<>>
    /\ last = [req |-> NoRequest, status |-> NoId, msg |-> "", result |-> <<>>,
               trace |-> NoTrace]
    /\ inflight = [put |-> Idle, delete |-> Idle]
    /\ registry = Installed
    /\ perms = NotLoaded

Reply(req, out) ==
    [req |-> req, status |-> out.status, msg |-> out.msg, result |-> out.result,
     trace |-> out.trace]

List ==
    \E req \in ListRequests :
        LET out == ListComments(store, req)
        IN  /\ prev' = store
            /\ store' = out.store
            /\ last' = Reply(req, out)
            /\ UNCHANGED <<inflight, registry, perms>>

Create ==
    \E req \in CreateRequests :
        LET out == CreateComment(store, req)
        IN  /\ Len(out.store) <= MaxComments
            /\ prev' = store
            /\ store' = out.store
            /\ last' = Reply(req, out)
            /\ UNCHANGED <<inflight, registry, perms>>

Get ==
    \E req \in GetRequests :
        LET out == GetComment(store, req)
        IN  /\ prev' = store
            /\ store' = out.store
            /\ last' = Reply(req, out)
            /\ UNCHANGED <<inflight, registry, perms>>

Update ==
    \E req \in UpdateRequests :
        LET out == UpdateComment(store, req)
        IN  /\ prev' = store
            /\ store' = out.store
            /\ last' = Reply(req, out)
            /\ UNCHANGED <<inflight, registry, perms>>

Delete ==
    \E req \in DeleteRequests :
        LET out == DeleteComment(store, req)
        IN  /\ prev' = store
            /\ store' = out.store
            /\ last' = Reply(req, out)
            /\ UNCHANGED <<inflight, registry, perms>>

Next == List \/ Create \/ Get \/ Update \/ Delete

Spec == Init /\ [][Next]_vars

\* ------------------------------- an update and a delete, step by step
\* Two workers handle one PUT and one DELETE at the same time.  Each handler
\* is two steps against the store: the permission check with the fetch of the
\* comment, and the rest of the handler with the save of the fetched instance.

\* the stores one create leaves behind
OneComment ==
    {<<[content_type |-> "post", object_pk |-> "1", user |-> "ann", parent |-> NoId,
        comment |-> SanitizeAndLinkify(t), is_active |-> TRUE]>> :
        t \in {x \in Texts : SanitizeAndLinkify(x) # <<>>}}

InitConc ==
    /\ store \in OneComment
    /\ prev = store
    /\ last = [req |-> NoRequest, status |-> NoId, msg |-> "", result |-> <<>>,
               trace |-> NoTrace]
    /\ inflight = [put |-> Idle, delete |-> Idle]
    /\ registry = Installed
    /\ perms = NotLoaded

\* the permission check and get_object_or_404 of a detail handler
Fetch(st, req, permitted) ==
    IF ~permitted
    THEN [Idle EXCEPT !.pc = "done", !.req = req, !.status = 403]
    ELSE LET id == GetObjectOr404(DetailQueryset(st), req.comment_id)
         IN  IF id = NoId
             THEN [Idle EXCEPT !.pc = "done", !.req = req, !.status = 404]
             ELSE [Idle EXCEPT !.pc = "fetched", !.req = req, !.id = id,
                               !.fetched = <<st[id]>>]

PutFetch ==
    /\ inflight.put.pc = "idle"
    /\ \E req \in UpdateRequests :
           inflight' = [inflight EXCEPT !.put = Fetch(store, req, CanUpdateComment(req))]
    /\ UNCHANGED <<store, last, prev, registry, perms>>

PutSave ==
    /\ inflight.put.pc = "fetched"
    /\ LET w == inflight.put
           out == PutFetched(store, w.req, w.id, w.fetched[1])
       IN  /\ store' = out.store
           /\ inflight' = [inflight EXCEPT !.put.pc = "done", !.put.status = out.status]
    /\ UNCHANGED <<last, prev, registry, perms>>

DeleteFetch ==
    /\ inflight.delete.pc = "idle"
    /\ \E req \in DeleteRequests :
           inflight' = [inflight EXCEPT !.delete = Fetch(store, req, DeletePermission(req))]
    /\ UNCHANGED <<store, last, prev, registry, perms>>

DeleteSave ==
    /\ inflight.delete.pc = "fetched"
    /\ LET w == inflight.delete
           out == DeleteFetched(store, w.req, w.id, w.fetched[1])
       IN  /\ store' = out.store
           /\ inflight' = [inflight EXCEPT !.delete.pc = "done",
                                           !.delete.status = out.status]
    /\ UNCHANGED <<last, prev, registry, perms>>

NextConc == PutFetch \/ PutSave \/ DeleteFetch \/ DeleteSave

SpecConc == InitConc /\ [][NextConc]_vars

\* --------------------------------------------- creates by several authors
\* The collection view's create alone, with requests of two identities.

Authors == {"ann", "bob"}

AuthoredRequests ==
    {Request("create", pu[1], NoId, pu[2], a, b) :
        pu \in Paths \X Authors, a \in Answers({"create"}), b \in CreateBodies}

CreateBy ==
    \E req \in AuthoredRequests :
        LET out == CreateComment(store, req)
        IN  /\ Len(out.store) <= MaxComments
            /\ prev' = store
            /\ store' = out.store
            /\ last' = Reply(req, out)
            /\ UNCHANGED <<inflight, registry, perms>>

SpecAuthors == Init /\ [][CreateBy]_vars

\* ------------------------------------------------- swapping the policy
\* The registry starts with the policy init_permissions installs.  Importing
\* views.py defines the two view classes, whose perms attributes are read
\* from the registry there and then; set_permissions replaces the objects the
\* registry holds; a request is answered by the perms of its view class.

InitRegistry ==
    /\ store \in OneComment
    /\ prev = store
    /\ last = [req |-> NoRequest, status |-> NoId, msg |-> "", result |-> <<>>,
               trace |-> NoTrace]
    /\ inflight = [put |-> Idle, delete |-> Idle]
    /\ registry = Installed
    /\ perms = NotLoaded

\* perms = get_registry().RootViewPermissions / .DetailViewPermissions
ViewPerms(reg) == [loaded |-> TRUE, root |-> reg.root, detail |-> reg.detail]

LoadViews ==
    /\ ~perms.loaded
    /\ perms' = ViewPerms(registry)
    /\ UNCHANGED <<store, last, prev, inflight, registry>>

SetPermissions ==
    /\ \E root \in PolicyObjects, detail \in PolicyObjects :
           registry' = [root |-> root, detail |-> detail]
    /\ UNCHANGED <<store, last, prev, inflight, perms>>

ServeList ==
    /\ perms.loaded
    /\ \E p \in Paths :
           LET req == Request("list", p, NoId, "ann",
                              AnswersOf(perms.root, perms.detail), NoBody)
               out == ListComments(store, req)
           IN  /\ prev' = store
               /\ store' = out.store
               /\ last' = Reply(req, out)
    /\ UNCHANGED <<inflight, registry, perms>>

ServeGet ==
    /\ perms.loaded
    /\ \E pc \in Paths \X CommentIds :
           LET req == Request("get", pc[1], pc[2], "ann",
                              AnswersOf(perms.root, perms.detail), NoBody)
               out == GetComment(store, req)
           IN  /\ prev' = store
               /\ store' = out.store
               /\ last' = Reply(req, out)
    /\ UNCHANGED <<inflight, registry, perms>>

ServeDelete ==
    /\ perms.loaded
    /\ \E pc \in Paths \X CommentIds :
           LET req == Request("delete", pc[1], pc[2], "ann",
                              AnswersOf(perms.root, perms.detail), NoBody)
               out == DeleteComment(store, req)
           IN  /\ prev' = store
               /\ store' = out.store
               /\ last' = Reply(req, out)
    /\ UNCHANGED <<inflight, registry, perms>>

NextRegistry == LoadViews \/ SetPermissions \/ ServeList \/ ServeGet \/ ServeDelete

SpecRegistry == InitRegistry /\ [][NextRegistry]_vars

\* ---------------------------------------------------------------- claims

\* the request handled last was refused by the predicate its handler consults
Denied ==
    \/ last.req.op = "list" /\ ~last.req.allow.can_list_comments
    \/ last.req.op = "create" /\ ~last.req.allow.can_create_comment
    \/ last.req.op = "get" /\ ~last.req.allow.can_get_comment
    \/ last.req.op = "update" /\ ~last.req.allow.can_update_comment
    \/ last.req.op = "delete" /\ ~last.req.allow.can_get_comment

\* the policy answers yes to every question about the request handled last
Authorized ==
    /\ last.req.op # "none"
    /\ last.req.allow.can_list_comments /\ last.req.allow.can_create_comment
    /\ last.req.allow.can_get_comment /\ last.req.allow.can_update_comment
    /\ last.req.allow.can_delete_comment

\* C1: on each of the five endpoints a request the consulted policy predicate
\* refuses is answered 403 "Permission denied", whatever the target and the
\* comment id, and nothing else happens: no target resolution, no body
\* parsing, no read of a comment, and the store is as it was.
C1_DeniedIs403 ==
    Denied =>
        /\ last.status = 403
        /\ last.msg = "Permission denied"
        /\ last.result = <<>>
        /\ ~last.trace.resolved /\ ~last.trace.parsed /\ ~last.trace.read
        /\ last.trace.validated = <<>>
        /\ store = prev

\* a refused create with a body on a target that does not exist
C1_Witness ==
    /\ last.req.op = "create"
    /\ ~last.req.allow.can_create_comment
    /\ <<last.req.content_type, last.req.object_pk>> \notin Existing
    /\ last.req.body.kind = "dict"
    /\ last.status = 403

\* C2: delete is soft.  A DELETE answered 204 acted on an active comment and
\* leaves its record in the store with is_active false and every other field
\* as it was; no request removes a record or makes an inactive comment active
\* again; and an authorized GET of an inactive comment is answered 404.
C2_SoftDelete ==
    /\ Len(store) >= Len(prev)
    /\ \A i \in Ids(prev) : ~prev[i].is_active => ~store[i].is_active
    /\ (last.req.op = "delete" /\ last.status = 204) =>
            /\ last.req.comment_id \in Ids(prev)
            /\ prev[last.req.comment_id].is_active
            /\ store = [prev EXCEPT ![last.req.comment_id].is_active = FALSE]
    /\ (/\ last.req.op = "get"
        /\ last.req.allow.can_get_comment
        /\ last.req.comment_id \in Ids(prev)
        /\ ~prev[last.req.comment_id].is_active) =>
            last.status = 404 /\ last.result = <<>>

\* a GET of a soft-deleted comment was answered 404
C2_Witness ==
    /\ last.req.op = "get"
    /\ last.req.allow.can_get_comment
    /\ last.req.comment_id \in Ids(store)
    /\ ~store[last.req.comment_id].is_active
    /\ last.status = 404

\* what the two requests in flight produce when the update is handled first
PutThenDelete ==
    LET p == UpdateComment(prev, inflight.put.req)
        d == DeleteComment(p.store, inflight.delete.req)
    IN  <<d.store, p.status, d.status>>

\* what the two requests in flight produce when the delete is handled first
DeleteThenPut ==
    LET d == DeleteComment(prev, inflight.delete.req)
        p == UpdateComment(d.store, inflight.put.req)
    IN  <<p.store, p.status, d.status>>

\* C3: a PUT and a DELETE of the same active comment running at the same
\* time end, in every interleaving of their fetch and save steps, with a store
\* and two responses that one of the two serial orders produces; a DELETE
\* answered 204 leaves the comment inactive, and a body for which PUT was
\* answered 200 is the stored body.
C3_Serializable ==
    (/\ inflight.put.pc = "done"
     /\ inflight.delete.pc = "done"
     /\ inflight.put.req.comment_id = inflight.delete.req.comment_id) =>
        /\ <<store, inflight.put.status, inflight.delete.status>>
               \in {PutThenDelete, DeleteThenPut}
        /\ inflight.delete.status = 204 =>
               ~store[inflight.delete.req.comment_id].is_active
        /\ inflight.put.status = 200 =>
               store[inflight.put.req.comment_id].comment
                   = SanitizeAndLinkify(inflight.put.req.body.comment)

\* C4: a DELETE is answered 403 exactly when can_delete_comment refuses it,
\* whatever can_get_comment answers, and a refused DELETE changes nothing.
C4_DeleteUsesCanDelete ==
    last.req.op = "delete" =>
        /\ last.status = 403 <=> ~last.req.allow.can_delete_comment
        /\ last.status = 403 => store = prev

\* C5: on every endpoint an authorized request for a target that does not
\* exist is answered 404 and changes nothing in the store.
C5_UnknownTargetIs404 ==
    (Authorized /\ <<last.req.content_type, last.req.object_pk>> \notin Existing) =>
        last.status = 404 /\ store = prev

\* the request handled last is an authorized PUT of an existing active
\* comment with a parsed body whose comment text sanitizes to nothing
EmptyUpdate ==
    /\ last.req.op = "update"
    /\ last.req.allow.can_update_comment
    /\ last.req.comment_id \in Ids(prev)
    /\ prev[last.req.comment_id].is_active
    /\ last.req.body.kind = "dict"
    /\ SanitizeAndLinkify(BodyGetComment(last.req.body)) = <<>>

C7_ValidatorSeesSanitized ==
    /\ (last.req.op \in {"create", "update"} /\ last.trace.validated # <<>>) =>
           last.trace.validated[1].comment
               = SanitizeAndLinkify(BodyGetComment(last.req.body))
    /\ (/\ last.req.op = "create"
        /\ last.req.allow.can_create_comment
        /\ <<last.req.content_type, last.req.object_pk>> \in Existing
        /\ last.req.body.kind = "dict"
        /\ SanitizeAndLinkify(BodyGetComment(last.req.body)) = <<>>) =>
           last.status = 400 /\ store = prev

\* C8: every request ends with one of the statuses 200, 204, 304, 400, 403,
\* 404; a create or an update that passed the permission and existence
\* checks with a body that does not parse is answered 400 and changes nothing.
C8_NoErrorEscapes ==
    last.req.op # "none" =>
        /\ last.status \in {200, 204, 304, 400, 403, 404}
        /\ (last.trace.parsed /\ last.req.body.kind = "malformed") =>
               last.status = 400 /\ store = prev

\* the request handled last is an authorized create on an existing target
\* with a valid body whose parentID names no comment of that target
BadParent ==
    /\ last.req.op = "create"
    /\ last.req.allow.can_create_comment
    /\ <<last.req.content_type, last.req.object_pk>> \in Existing
    /\ last.req.body.kind = "dict"
    /\ SanitizeAndLinkify(BodyGetComment(last.req.body)) # <<>>
    /\ last.req.body.parentID # NoId
    /\ \/ last.req.body.parentID \notin Ids(prev)
       \/ prev[last.req.body.parentID].content_type # last.req.content_type
       \/ prev[last.req.body.parentID].object_pk # last.req.object_pk

\* C9: such a create is answered 404 "Bad parent" and creates no comment.
C9_BadParentIs404 ==
    BadParent =>
        /\ last.status = 404
        /\ last.msg = "Bad parent"
        /\ store = prev

\* the parentID named a comment of another target
C9_Witness ==
    /\ BadParent
    /\ last.req.body.parentID \in Ids(prev)
    /\ last.status = 404

\* C10: an authorized list for an existing target is answered 200 with
\* exactly the comments of that target that are active, each once, in the
\* order of their creation.
C10_ListIsActiveOfTarget ==
    (/\ last.req.op = "list"
     /\ last.req.allow.can_list_comments
     /\ <<last.req.content_type, last.req.object_pk>> \in Existing) =>
        /\ last.status = 200
        /\ store = prev
        /\ \A k \in 1..Len(last.result) :
               LET r == last.result[k]
               IN  /\ r.id \in Ids(store)
                   /\ store[r.id].is_active
                   /\ store[r.id].content_type = last.req.content_type
                   /\ store[r.id].object_pk = last.req.object_pk
                   /\ r.comment = store[r.id].comment
        /\ \A i \in Ids(store) :
               (/\ store[i].is_active
                /\ store[i].content_type = last.req.content_type
                /\ store[i].object_pk = last.req.object_pk) =>
                   \E k \in 1..Len(last.result) : last.result[k].id = i
        /\ \A k, l \in 1..Len(last.result) :
               k < l => last.result[k].id < last.result[l].id

\* a list left out an inactive comment of the target and returned the other
C10_Witness ==
    /\ last.req.op = "list"
    /\ last.status = 200
    /\ Len(last.result) = 1
    /\ \E i \in Ids(store) :
           /\ ~store[i].is_active
           /\ store[i].content_type = last.req.content_type
           /\ store[i].object_pk = last.req.object_pk

\* C11: every stored comment whose parent is set has a parent that is a
\* stored comment of the same content type and object pk.
C11_ParentOfSameTarget ==
    \A i \in Ids(store) :
        store[i].parent # NoId =>
            /\ store[i].parent \in Ids(store)
            /\ store[store[i].parent].content_type = store[i].content_type
            /\ store[store[i].parent].object_pk = store[i].object_pk

\* a reply is stored
C11_Witness == \E i \in Ids(store) : store[i].parent # NoId

\* C12: an update answered 200 changes the body of the addressed comment and
\* nothing else in the store; no request changes the target, the author or
\* the parent of a stored comment, and only a delete of that comment changes
\* its is_active.
C12_UpdateChangesBodyOnly ==
    /\ (last.req.op = "update" /\ last.status = 200) =>
           /\ last.req.comment_id \in Ids(prev)
           /\ store = [prev EXCEPT ![last.req.comment_id].comment =
                                       SanitizeAndLinkify(last.req.body.comment)]
    /\ \A i \in Ids(prev) :
           /\ store[i].content_type = prev[i].content_type
           /\ store[i].object_pk = prev[i].object_pk
           /\ store[i].user = prev[i].user
           /\ store[i].parent = prev[i].parent
           /\ store[i].is_active # prev[i].is_active =>
                  last.req.op = "delete" /\ last.req.comment_id = i

\* an update through the path of another target was answered 200 and
\* changed the body
C12_Witness ==
    /\ last.req.op = "update"
    /\ last.status = 200
    /\ store # prev
    /\ store[last.req.comment_id].object_pk # last.req.object_pk

\* the answer the create pipeline gives when its checks are made in the
\* order: permission, target, body parse, schema, parent
CreateInOrder ==
    IF ~last.req.allow.can_create_comment THEN <<403, "Permission denied">>
    ELSE IF <<last.req.content_type, last.req.object_pk>> \notin Existing
    THEN <<404, "Bad content type or object id">>
    ELSE IF last.req.body.kind # "dict" THEN <<400, "malformed">>
    ELSE IF SanitizeAndLinkify(BodyGetComment(last.req.body)) = <<>>
    THEN <<400, "invalid">>
    ELSE IF /\ last.req.body.parentID # NoId
            /\ \/ last.req.body.parentID \notin Ids(prev)
               \/ prev[last.req.body.parentID].content_type # last.req.content_type
               \/ prev[last.req.body.parentID].object_pk # last.req.object_pk
    THEN <<404, "Bad parent">>
    ELSE <<200, "">>

\* C13: a create is answered by the first failing check of: permission
\* (403), target (404), body parse (400), schema (400), parent (404), and
\* creates only when all pass.
C13_CreateExitsInOrder ==
    last.req.op = "create" =>
        /\ last.status = CreateInOrder[1]
        /\ last.status # 400 => last.msg = CreateInOrder[2]
        /\ store # prev <=> last.status = 200

\* the request handled last is an authorized item request on a comment that
\* was inactive when it arrived
OnInactive ==
    /\ last.req.op \in {"get", "update", "delete"}
    /\ Authorized
    /\ last.req.comment_id \in Ids(prev)
    /\ ~prev[last.req.comment_id].is_active

\* C14: an authorized get, update or delete of an inactive comment is
\* answered 404 and leaves the store as it was; no request changes the
\* record of an inactive comment, so it stays inactive with its body.
C14_InactiveIsGone ==
    /\ OnInactive => last.status = 404 /\ last.result = <<>> /\ store = prev
    /\ \A i \in Ids(prev) : ~prev[i].is_active => store[i] = prev[i]

\* a second DELETE of a comment was answered 404
C14_Witness ==
    /\ OnInactive
    /\ last.req.op = "delete"
    /\ last.status = 404

\* C17: an authorized get, update or delete whose comment_id names an active
\* comment of another target than the one in the path is answered 404, and
\* the comment is not returned, changed or deactivated.
C17_CommentOfThePathTarget ==
    (/\ last.req.op \in {"get", "update", "delete"}
     /\ Authorized
     /\ last.req.comment_id \in Ids(prev)
     /\ prev[last.req.comment_id].is_active
     /\ \/ prev[last.req.comment_id].content_type # last.req.content_type
        \/ prev[last.req.comment_id].object_pk # last.req.object_pk) =>
        /\ last.status = 404
        /\ last.result = <<>>
        /\ store = prev

\* C18: list and get leave the store as it was, and so does every create or
\* update not answered 200 and every delete not answered 204.
C18_OnlySuccessfulWritesChange ==
    /\ last.req.op \in {"list", "get"} => store = prev
    /\ (last.req.op \in {"create", "update"} /\ last.status # 200) => store = prev
    /\ (last.req.op = "delete" /\ last.status # 204) => store = prev

\* a create on a target that has comments was answered 404 "Bad parent"
C18_Witness ==
    /\ last.req.op = "create"
    /\ last.status = 404
    /\ last.msg = "Bad parent"
    /\ store # <<>>

\* C15: a create answered 200 appends one record under the next id, with the
\* target of the path, the requesting identity as author, the parent named
\* by parentID (a comment of that target) or none, the sanitized comment text
\* as body and is_active true; the records that were there are unchanged.
C15_CreateAddsOneRecord ==
    (last.req.op = "create" /\ last.status = 200) =>
        /\ Len(store) = Len(prev) + 1
        /\ \A i \in Ids(prev) : store[i] = prev[i]
        /\ store[Len(store)] =
               [content_type |-> last.req.content_type,
                object_pk |-> last.req.object_pk,
                user |-> last.req.user,
                parent |-> last.req.body.parentID,
                comment |-> SanitizeAndLinkify(BodyGetComment(last.req.body)),
                is_active |-> TRUE]
        /\ store[Len(store)].comment # <<>>
        /\ last.req.body.parentID # NoId =>
               /\ last.req.body.parentID \in Ids(prev)
               /\ prev[last.req.body.parentID].content_type = last.req.content_type
               /\ prev[last.req.body.parentID].object_pk = last.req.object_pk
        /\ last.result = <<Serialize(Len(store), store[Len(store)])>>

\* a reply was created by another identity than the author of its parent
C15_Witness ==
    /\ last.req.op = "create"
    /\ last.status = 200
    /\ last.req.body.parentID # NoId
    /\ store[last.req.body.parentID].user # last.req.user

\* C16: a request is authorized by the policy objects the registry holds
\* when it is handled: the answers it gets are those of the root and detail
\* objects installed by the latest set_permissions.
C16_InstalledPolicyAnswers ==
    [][last' # last =>
          last'.req.allow = AnswersOf(registry'.root, registry'.detail)]_vars

====
